---- MODULE Spec2Model ----
(***************************************************************************)
(* Model of src/animation.py: a damped pendulum animation.  The main loop  *)
(* (lines 159-213) is one tick per iteration; each block of the loop body  *)
(* is one action, sequenced by pc.                                         *)
(*                                                                         *)
(* Representation.  Python floats are modelled as fixed-point integers:    *)
(* angles, angular velocities and sines in 1/SCALE units, pixel positions  *)
(* in 1/SUB pixel.  int() is truncation toward zero (Quot), round() is     *)
(* round-half-to-even (RoundRadius).  The canvas is modelled by the draw   *)
(* calls issued into the current frame, not by pixels.                     *)
(***************************************************************************)
EXTENDS Integers, Sequences, FiniteSets, TLC

(* ------------------------- Constants (lines 7-43) ---------------------- *)
WIDTH == 800
HEIGHT == 600
FPS == 60
TIME_LIMIT == 10
PENDULUM_ANCHOR == <<400, 100>>
PENDULUM_LENGTH == 150
\* GRAVITY = 0.5 and DAMPING = 0.96 as exact fractions
GRAVITY_NUM == 1
GRAVITY_DEN == 2
DAMPING_NUM == 96
DAMPING_DEN == 100
HEXAGON_SIDE == 20
TRAIL_LENGTH == 8
LIGHT_BEAM_THRESHOLD == 5
BEAM_COUNT == 6
BEAM_LENGTH == 100
GRID_SPACING == 15
GRID_WARP_RADIUS == 150
NUM_VORTEX_PARTICLES == 100
VORTEX_CENTER == <<WIDTH \div 2, HEIGHT \div 2>>
BLACK == <<0, 0, 0>>
CYAN == <<0, 255, 255>>
PURPLE == <<128, 0, 128>>
WHITE == <<255, 255, 255>>

(* ------------------------- Fixed-point arithmetic ---------------------- *)
\* units per radian (and per unit of sine); a multiple of 30 so that the
\* beam threshold 5/150 rad/frame is representable exactly
SCALE == 30 * 1000
\* units per pixel
SUB == 5 * 2
\* pi in SCALE units (math.pi)
PI_S == 94248

Abs(x) == IF x < 0 THEN -x ELSE x

\* integer quotient truncated toward zero (Python int() of a float quotient)
Quot(a, b) == IF a >= 0 THEN a \div b ELSE -((-a) \div b)

\* math.sin for |x| <= pi/2 * SCALE / 2: Taylor series to the x^7 term
SinPos(x) ==
    LET x2 == (x * x) \div SCALE
        x3 == (x2 * x) \div SCALE
        x5 == (x3 * x2) \div SCALE
        x7 == (x5 * x2) \div SCALE
    IN  x - (x3 \div 6) + (x5 \div 120) - (x7 \div 5040)

Sin(x) == IF x < 0 THEN -SinPos(-x) ELSE SinPos(x)

\* math.cos on the same domain: Taylor series to the x^6 term
Cos(x) ==
    LET a  == Abs(x)
        x2 == (a * a) \div SCALE
        x4 == (x2 * x2) \div SCALE
        x6 == (x4 * x2) \div SCALE
    IN  SCALE - (x2 \div 2) + (x4 \div 24) - (x6 \div 720)

\* math.radians(deg)
Radians(deg) == Quot(deg * PI_S, 180)

HEXAGON_ROTATION_SPEED == Radians(3)
LIGHT_BEAM_SPREAD == Radians(30)
\* VORTEX_ROTATION_SPEED = 0.02 rad/frame
VORTEX_ROTATION_SPEED == (2 * SCALE) \div 100

(* ------------------------- Model bounds -------------------------------- *)
\* clock.tick(FPS) returns after k * FrameStep milliseconds, k in 1..MaxLag
FrameStep == 500
MaxLag == 2
\* no tick starts after this many (never reached while the time limit works)
MaxTicks == 24
\* number of seeds of the random generator that are explored
NumSeeds == 2
\* pygame.time.get_ticks() at line 157 is 0 or StartSkew
StartSkew == 7

(* ------------------------- State --------------------------------------- *)
VARIABLES
    pc,                   \* position in the main loop
    running,              \* line 156
    now,                  \* value pygame.time.get_ticks() would return (ms)
    start_ticks,          \* line 157
    angle,                \* line 60
    angular_velocity,     \* line 61
    angular_acceleration, \* line 62
    bob,                  \* line 179
    hexagon_angle,        \* line 71
    trail,                \* line 75
    vortex_particles,     \* line 79
    frame,                \* draw calls issued on screen since the last fill
    presented,            \* number of pygame.display.flip() calls
    ops,                  \* blocks of the loop body executed in this tick
    tick,                 \* number of loop iterations started
    bobHist,              \* history: the bob of every tick, oldest first
    quitTick,             \* history: tick whose event drain saw QUIT (0: none)
    limitTick,            \* history: tick of the first time check with
                          \*   elapsed >= TIME_LIMIT (0: none)
    checks,               \* history: time checks evaluated in this tick
    seed,                 \* seed of the random generator
    initial,              \* history: pendulum and particles before tick 1
    gx, gy,               \* draw_warped_grid: loop variables x, y
    gcenter,              \* draw_warped_grid: warp_center
    gdot,                 \* draw_warped_grid: last circle drawn
    gcount                \* draw_warped_grid: circles drawn so far

pendulumVars == <<angle, angular_velocity, angular_acceleration, bob>>
loopVars == <<pc, running, now, start_ticks, hexagon_angle, trail,
              vortex_particles, frame, presented, ops, tick>>
histVars == <<bobHist, quitTick, limitTick, checks, seed, initial>>
gridVars == <<gx, gy, gcenter, gdot, gcount>>
vars == <<pendulumVars, loopVars, histVars, gridVars>>

(* ------------------------- Utility functions --------------------------- *)
\* interpolate_color(c1, c2, t) with t = tn / td: int() of each blended
\* channel.  The blend c1*(1-t) + c2*t is non-negative, so int() is floor.
interpolate_color(c1, c2, tn, td) ==
    [j \in 1..3 |-> (c1[j] * (td - tn) + c2[j] * tn) \div td]

\* lines 177-179: bob position (1/SUB pixel) for an angle
BobOf(a) ==
    << PENDULUM_ANCHOR[1] * SUB + Quot(PENDULUM_LENGTH * Sin(a) * SUB, SCALE),
       PENDULUM_ANCHOR[2] * SUB + Quot(PENDULUM_LENGTH * Cos(a) * SUB, SCALE) >>

\* line 171
Acceleration(a) ==
    Quot(-(GRAVITY_NUM * Sin(a)), GRAVITY_DEN * PENDULUM_LENGTH)

\* line 173: angular_velocity *= DAMPING
Damp(v) == Quot(v * DAMPING_NUM, DAMPING_DEN)

\* random.uniform stand-in: a value in 0..m-1 determined by the seed and the
\* number of the draw
Rand(s, n, m) == (s * 7919 + n * 104729) % m

\* lines 79-83
InitialParticles(s) ==
    [i \in 1..NUM_VORTEX_PARTICLES |->
        [angle  |-> Rand(s, 2 * i - 1, 2 * PI_S),
         radius |-> 90 * SUB + Rand(s, 2 * i, 20 * SUB + 1)]]

\* the canvas right after screen.fill(BLACK)
EmptyFrame ==
    [rod |-> 0, hexagon |-> <<>>, trailSegs |-> <<>>, trailBlits |-> 0,
     beams |-> <<>>, beamBlits |-> 0, beamCenter |-> <<>>,
     gridDots |-> 0, gridBlits |-> 0, gridCenter |-> <<>>, vortexDots |-> 0]

\* lines 95-110: the segments draw_neon_trail draws for a trail of n points
TrailSegments(trail_points) ==
    LET n == Len(trail_points)
    IN  IF n < 2 THEN <<>>
        ELSE [k \in 1..(n - 1) |->
                 \* k = i + 1 for the loop variable i of range(n - 1)
                 [color |-> interpolate_color(PURPLE, CYAN, k - 1, n - 1),
                  alpha |-> (255 * k) \div n,
                  from  |-> trail_points[k],
                  to    |-> trail_points[k + 1]]]

\* lines 112-126: the triangles draw_light_beams draws, each given by its
\* apex and the directions of its two outer vertices
BeamTriangles(center, count, length) ==
    LET half_spread == LIGHT_BEAM_SPREAD \div 2
    IN  [k \in 1..count |->
            LET central_angle == (k - 1) * ((2 * PI_S) \div count)
            IN  [apex |-> center, length |-> length,
                 angle1 |-> central_angle - half_spread,
                 angle2 |-> central_angle + half_spread]]

\* variant of BeamsVisible: the comparison written as >=
BeamsVisibleInclusive(av) ==
    Abs(av) * PENDULUM_LENGTH >= LIGHT_BEAM_THRESHOLD * SCALE

\* line 197
BeamsVisible(av) ==
    Abs(av) * PENDULUM_LENGTH > LIGHT_BEAM_THRESHOLD * SCALE

\* variant of TimeLimitExceeded: the limit taken to be in milliseconds
TimeLimitExceededMillis(t, t0) == ((t - t0) \div 1000) > TIME_LIMIT * 1000

\* line 208-209: elapsed = (get_ticks() - start_ticks) / 1000.0 > TIME_LIMIT
TimeLimitExceeded(t, t0) == (t - t0) > TIME_LIMIT * 1000

\* variant of PushTrail: trail.pop() in place of trail.pop(0)
PushTrailDropNewest(tr, b) ==
    LET appended == Append(tr, b)
    IN  IF Len(appended) > TRAIL_LENGTH
        THEN SubSeq(appended, 1, Len(appended) - 1)
        ELSE appended

\* lines 189-191
PushTrail(tr, b) ==
    LET appended == Append(tr, b)
    IN  IF Len(appended) > TRAIL_LENGTH THEN Tail(appended) ELSE appended

\* variant of StepPendulum: the angle advanced by the velocity of the
\* previous tick
StepPendulumStaleVelocity(a, v) ==
    LET acc == Acceleration(a)
        vel == Damp(v + acc)
    IN  [angular_acceleration |-> acc,
         angular_velocity     |-> vel,
         angle                |-> a + v]

\* variant of StepPendulum: the velocity scaled by the time the frames have
\* taken so far, relative to the nominal frame time
StepPendulumFrameTime(a, v) ==
    LET acc == Acceleration(a)
        vel == Damp(v + acc)
        dt  == IF tick = 0 THEN 1 ELSE (now - start_ticks) \div (tick * FrameStep)
    IN  [angular_acceleration |-> acc,
         angular_velocity     |-> vel,
         angle                |-> a + vel * dt]

\* lines 171-174: one integrator step from angle a and angular velocity v
StepPendulum(a, v) ==
    LET acc == Acceleration(a)
        vel == Damp(v + acc)
    IN  [angular_acceleration |-> acc,
         angular_velocity     |-> vel,
         angle                |-> a + vel]

\* variant of SwirlParticle: the particle also spirals inward
SwirlParticleInward(p) ==
    [angle |-> p.angle - VORTEX_ROTATION_SPEED, radius |-> p.radius - 1]

\* line 150
SwirlParticle(p) ==
    [angle |-> p.angle - VORTEX_ROTATION_SPEED, radius |-> p.radius]

\* floor of the square root of n, 0 <= n < 2^30
RECURSIVE ISqrtBits(_, _, _)
ISqrtBits(n, res, bit) ==
    IF bit = 0 THEN res
    ELSE IF (res + bit) * (res + bit) <= n
         THEN ISqrtBits(n, res + bit, bit \div 2)
         ELSE ISqrtBits(n, res, bit \div 2)

ISqrt(n) == ISqrtBits(n, 0, 16384)

\* variant of RoundRadius: int(r / GRID_SPACING) in place of round
RoundRadiusDown(q) == ISqrt(4 * q) \div (2 * GRID_SPACING * SUB)

\* line 138: round(r / GRID_SPACING) for r = sqrt(q) / SUB pixels, computed
\* exactly; Python's round() sends a tie to the even neighbour
RoundRadius(q) ==
    LET d   == GRID_SPACING * SUB
        r2  == ISqrt(4 * q)
        up  == (r2 + d) \div (2 * d)
        tie == r2 * r2 = 4 * q /\ (r2 + d) % (2 * d) = 0
    IN  IF tie /\ up % 2 = 1 THEN up - 1 ELSE up

\* lines 133-143: the circle drawn for lattice coordinate (x, y)
WarpPoint(x, y, warp_center, warp_radius) ==
    LET dx == x * SUB - warp_center[1]
        dy == y * SUB - warp_center[2]
        q  == dx * dx + dy * dy
    IN  IF q < (warp_radius * SUB) * (warp_radius * SUB) /\ q # 0
        THEN LET new_r == RoundRadius(q) * GRID_SPACING * SUB
                 r2    == ISqrt(4 * q)
                 new_x == warp_center[1] + Quot(2 * new_r * dx, r2)
                 new_y == warp_center[2] + Quot(2 * new_r * dy, r2)
             IN  [at |-> <<x, y>>, warped |-> TRUE, new_r |-> new_r,
                  exact |-> <<new_x, new_y>>,
                  pos |-> <<Quot(new_x, SUB), Quot(new_y, SUB)>>,
                  radius |-> 2]
        ELSE [at |-> <<x, y>>, warped |-> FALSE, new_r |-> 0,
              exact |-> <<x * SUB, y * SUB>>,
              pos |-> <<x, y>>,
              radius |-> 1]

\* number of values of range(0, limit, GRID_SPACING)
RangeCount(limit) == (limit + GRID_SPACING - 1) \div GRID_SPACING

(* ------------------------- Initial state ------------------------------- *)
InitGrid ==
    /\ gx = 0 /\ gy = 0 /\ gcenter = <<0, 0>> /\ gdot = <<>> /\ gcount = 0

\* lines 59-83 and 156-157
InitLoop(a0, v0, seeds, starts) ==
    /\ running = TRUE
    /\ seed \in seeds
    /\ start_ticks \in starts
    /\ now = start_ticks
    /\ angle = a0
    /\ angular_velocity = v0
    /\ angular_acceleration = 0
    /\ bob = <<>>
    /\ hexagon_angle = 0
    /\ trail = <<>>
    /\ vortex_particles = InitialParticles(seed)
    /\ frame = EmptyFrame
    /\ presented = 0
    /\ ops = <<>>
    /\ tick = 0
    /\ bobHist = <<>>
    /\ quitTick = 0
    /\ limitTick = 0
    /\ checks = 0
    /\ initial = [angle |-> a0, angular_velocity |-> v0,
                  particles |-> InitialParticles(seed)]

\* lines 60-61: angle = math.pi / 4, angular_velocity = 0
Init ==
    /\ pc = "loop"
    /\ InitLoop(PI_S \div 4, 0, 1..NumSeeds, {0, StartSkew})
    /\ InitGrid

(* ------------------------- Main loop (lines 159-216) ------------------- *)
\* the event batches pygame.event.get() may return
EventBatches ==
    {<<>>, <<"KEYDOWN">>, <<"QUIT">>, <<"KEYDOWN", "QUIT">>,
     <<"QUIT", "KEYDOWN">>}

HasQuit(events) == \E i \in 1..Len(events) : events[i] = "QUIT"

\* line 159: while running; lines 215-216 when the loop exits
LoopTest ==
    /\ pc = "loop"
    /\ IF running
       THEN /\ tick < MaxTicks
            /\ pc' = "wait"
            /\ tick' = tick + 1
            /\ ops' = <<>>
            /\ checks' = 0
       ELSE /\ pc' = "done"
            /\ UNCHANGED <<tick, ops, checks>>
    /\ UNCHANGED <<pendulumVars, running, now, start_ticks, hexagon_angle,
                   trail, vortex_particles, frame, presented, bobHist,
                   quitTick, limitTick, seed, initial, gridVars>>

\* line 160: clock.tick(FPS) waits for the next frame
TickWait ==
    /\ pc = "wait"
    /\ \E lag \in 1..MaxLag :
          /\ lag * FrameStep >= 1000 \div FPS
          /\ now' = now + lag * FrameStep
    /\ pc' = "events"
    /\ ops' = Append(ops, "tick")
    /\ UNCHANGED <<pendulumVars, running, start_ticks, hexagon_angle, trail,
                   vortex_particles, frame, presented, tick, histVars,
                   gridVars>>

\* variant of HandleEvents: QUIT leaves the loop at once
HandleEventsExit ==
    /\ pc = "events"
    /\ \E events \in EventBatches :
          /\ running' = IF HasQuit(events) THEN FALSE ELSE running
          /\ quitTick' = IF HasQuit(events) /\ quitTick = 0
                         THEN tick ELSE quitTick
          /\ pc' = IF HasQuit(events) THEN "done" ELSE "clear"
    /\ ops' = Append(ops, "events")
    /\ UNCHANGED <<pendulumVars, now, start_ticks, hexagon_angle, trail,
                   vortex_particles, frame, presented, tick, bobHist,
                   limitTick, checks, seed, initial, gridVars>>

\* lines 163-165
HandleEvents ==
    /\ pc = "events"
    /\ \E events \in EventBatches :
          /\ running' = IF HasQuit(events) THEN FALSE ELSE running
          /\ quitTick' = IF HasQuit(events) /\ quitTick = 0
                         THEN tick ELSE quitTick
    /\ pc' = "clear"
    /\ ops' = Append(ops, "events")
    /\ UNCHANGED <<pendulumVars, now, start_ticks, hexagon_angle, trail,
                   vortex_particles, frame, presented, tick, bobHist,
                   limitTick, checks, seed, initial, gridVars>>

\* line 168
ClearCanvas ==
    /\ pc = "clear"
    /\ frame' = EmptyFrame
    /\ pc' = "physics"
    /\ ops' = Append(ops, "clear")
    /\ UNCHANGED <<pendulumVars, running, now, start_ticks, hexagon_angle,
                   trail, vortex_particles, presented, tick, histVars,
                   gridVars>>

\* lines 171-182: integrator step, bob position, pendulum rod
UpdatePhysics ==
    /\ pc = "physics"
    /\ LET next == StepPendulum(angle, angular_velocity)
       IN  /\ angular_acceleration' = next.angular_acceleration
           /\ angular_velocity' = next.angular_velocity
           /\ angle' = next.angle
    /\ bob' = BobOf(angle')
    /\ bobHist' = Append(bobHist, bob')
    /\ frame' = [frame EXCEPT !.rod = @ + 1]
    /\ pc' = "hexagon"
    /\ ops' = Append(ops, "physics")
    /\ UNCHANGED <<running, now, start_ticks, hexagon_angle, trail,
                   vortex_particles, presented, tick, quitTick, limitTick,
                   checks, seed, initial, gridVars>>

\* lines 185-186
UpdateHexagon ==
    /\ pc = "hexagon"
    /\ hexagon_angle' = hexagon_angle + HEXAGON_ROTATION_SPEED
    /\ frame' = [frame EXCEPT
                    !.hexagon = Append(@, [center |-> bob,
                                           angle |-> hexagon_angle'])]
    /\ pc' = "trail"
    /\ ops' = Append(ops, "hexagon")
    /\ UNCHANGED <<pendulumVars, running, now, start_ticks, trail,
                   vortex_particles, presented, tick, histVars, gridVars>>

\* lines 189-192
UpdateTrail ==
    /\ pc = "trail"
    /\ trail' = PushTrail(trail, bob)
    /\ frame' = [frame EXCEPT
                    !.trailSegs = TrailSegments(trail'),
                    !.trailBlits = IF Len(trail') < 2 THEN @ ELSE @ + 1]
    /\ pc' = "beams"
    /\ ops' = Append(ops, "trail")
    /\ UNCHANGED <<pendulumVars, running, now, start_ticks, hexagon_angle,
                   vortex_particles, presented, tick, histVars, gridVars>>

\* lines 196-198
LightBeams ==
    /\ pc = "beams"
    /\ frame' = IF BeamsVisible(angular_velocity)
                THEN [frame EXCEPT
                         !.beams = BeamTriangles(bob, BEAM_COUNT, BEAM_LENGTH),
                         !.beamCenter = bob,
                         !.beamBlits = @ + 1]
                ELSE frame
    /\ pc' = "grid"
    /\ ops' = Append(ops, "beams")
    /\ UNCHANGED <<pendulumVars, running, now, start_ticks, hexagon_angle,
                   trail, vortex_particles, presented, tick, histVars,
                   gridVars>>

\* line 202: draw_warped_grid(screen, bob); the circles themselves are
\* modelled by GridDot below
WarpedGrid ==
    /\ pc = "grid"
    /\ frame' = [frame EXCEPT
                    !.gridDots = @ + RangeCount(WIDTH) * RangeCount(HEIGHT),
                    !.gridCenter = bob,
                    !.gridBlits = @ + 1]
    /\ pc' = "vortex"
    /\ ops' = Append(ops, "grid")
    /\ UNCHANGED <<pendulumVars, running, now, start_ticks, hexagon_angle,
                   trail, vortex_particles, presented, tick, histVars,
                   gridVars>>

\* line 205 and lines 146-153
UpdateAndDrawVortex ==
    /\ pc = "vortex"
    /\ vortex_particles' =
          [i \in 1..Len(vortex_particles) |->
              SwirlParticle(vortex_particles[i])]
    /\ frame' = [frame EXCEPT !.vortexDots = @ + Len(vortex_particles)]
    /\ pc' = "timecheck"
    /\ ops' = Append(ops, "vortex")
    /\ UNCHANGED <<pendulumVars, running, now, start_ticks, hexagon_angle,
                   trail, presented, tick, histVars, gridVars>>

\* variant of CheckTimeLimit: the check placed after the display update
CheckTimeLimitAfterFlip ==
    /\ pc = "timecheck"
    /\ presented' = presented + 1
    /\ running' = IF TimeLimitExceeded(now, start_ticks) THEN FALSE
                  ELSE running
    /\ limitTick' = IF limitTick = 0 /\ now - start_ticks >= TIME_LIMIT * 1000
                    THEN tick ELSE limitTick
    /\ checks' = checks + 1
    /\ pc' = "loop"
    /\ ops' = Append(Append(ops, "flip"), "timecheck")
    /\ UNCHANGED <<pendulumVars, now, start_ticks, hexagon_angle, trail,
                   vortex_particles, frame, tick, bobHist,
                   quitTick, seed, initial, gridVars>>

\* lines 208-210
CheckTimeLimit ==
    /\ pc = "timecheck"
    /\ running' = IF TimeLimitExceeded(now, start_ticks) THEN FALSE
                  ELSE running
    /\ limitTick' = IF limitTick = 0 /\ now - start_ticks >= TIME_LIMIT * 1000
                    THEN tick ELSE limitTick
    /\ checks' = checks + 1
    /\ pc' = "flip"
    /\ ops' = Append(ops, "timecheck")
    /\ UNCHANGED <<pendulumVars, now, start_ticks, hexagon_angle, trail,
                   vortex_particles, frame, presented, tick, bobHist,
                   quitTick, seed, initial, gridVars>>

\* line 213
Flip ==
    /\ pc = "flip"
    /\ presented' = presented + 1
    /\ pc' = "loop"
    /\ ops' = Append(ops, "flip")
    /\ UNCHANGED <<pendulumVars, running, now, start_ticks, hexagon_angle,
                   trail, vortex_particles, frame, tick, histVars, gridVars>>

Next ==
    \/ LoopTest
    \/ TickWait
    \/ HandleEvents
    \/ ClearCanvas
    \/ UpdatePhysics
    \/ UpdateHexagon
    \/ UpdateTrail
    \/ LightBeams
    \/ WarpedGrid
    \/ UpdateAndDrawVortex
    \/ CheckTimeLimit
    \/ Flip

Spec == Init /\ [][Next]_vars

(* ------------------------- Fixture runs -------------------------------- *)
\* angular velocity (SCALE units) at which abs(v) * PENDULUM_LENGTH equals
\* LIGHT_BEAM_THRESHOLD
ThresholdVelocity == (LIGHT_BEAM_THRESHOLD * SCALE) \div PENDULUM_LENGTH

\* initial velocities whose first integrator step from angle 0 lands just
\* below, on and just above the beam threshold, in both directions
FixtureVelocities ==
    LET reach == (ThresholdVelocity * DAMPING_DEN) \div DAMPING_NUM + 1
    IN  {sgn * (reach + d) : sgn \in {-1, 1}, d \in -1..1}

\* the main loop started from a constructed pendulum state
InitFixture ==
    /\ pc = "loop"
    /\ \E v0 \in FixtureVelocities \cup {0} :
          InitLoop(IF v0 = 0 THEN PI_S \div 4 ELSE 0, v0, 1..NumSeeds, {0})
    /\ InitGrid

SpecFixture == InitFixture /\ [][Next]_vars

(* ------------------------- Properties ---------------------------------- *)
Min(a, b) == IF a < b THEN a ELSE b

\* the block named op has run in the current tick
Did(op) == \E i \in 1..Len(ops) : ops[i] = op

IsPrefix(s, t) == Len(s) <= Len(t) /\ \A i \in 1..Len(s) : s[i] = t[i]

\* C1 (trail bound): once the trail has been updated and drawn on tick k, it
\* holds exactly min(k, TRAIL_LENGTH) entries, which are the bob positions of
\* the most recent min(k, TRAIL_LENGTH) ticks, oldest first; its length is
\* TRAIL_LENGTH from tick TRAIL_LENGTH on and never more; the segments drawn
\* join consecutive entries.
C1_TrailBound ==
    Did("trail") =>
        LET m == Min(tick, TRAIL_LENGTH)
        IN  /\ Len(bobHist) = tick
            /\ Len(trail) = m
            /\ \A j \in 1..m : trail[j] = bobHist[tick - m + j]
            /\ Len(trail) <= TRAIL_LENGTH
            /\ (tick >= TRAIL_LENGTH => Len(trail) = TRAIL_LENGTH)
            /\ Len(frame.trailSegs) = (IF m < 2 THEN 0 ELSE m - 1)
            /\ \A j \in 1..Len(frame.trailSegs) :
                  /\ frame.trailSegs[j].from = trail[j]
                  /\ frame.trailSegs[j].to = trail[j + 1]

\* the window has slid: more ticks than the trail holds, oldest entry evicted
C1_Witness ==
    /\ Did("trail")
    /\ tick > TRAIL_LENGTH
    /\ trail[1] # bobHist[1]
    /\ trail[TRAIL_LENGTH] = bob

\* C2 (termination by time limit): after the first time check at which
\* elapsed >= TIME_LIMIT (on tick limitTick) at most one more tick begins,
\* and the time check of that one extra tick leaves running False.
C2_TimeLimit ==
    limitTick > 0 =>
        /\ tick <= limitTick + 1
        /\ (tick = limitTick + 1 /\ Did("timecheck") => ~running)
        /\ (tick = limitTick + 1 /\ pc = "loop" => ~running)

\* no QUIT was ever delivered, elapsed was exactly TIME_LIMIT at a check, one
\* more tick ran and the loop has exited
C2_Witness ==
    /\ quitTick = 0
    /\ limitTick > 0
    /\ tick = limitTick + 1
    /\ pc = "done"

\* the blocks of one tick in the order the loop body executes them
TickOps ==
    <<"tick", "events", "clear", "physics", "hexagon", "trail", "beams",
      "grid", "vortex", "timecheck", "flip">>

\* C3 (shutdown signal): when the event drain of a tick sees QUIT, running is
\* False from then on, no later tick begins, and that tick still runs every
\* block of the frame and presents it exactly once before the loop exits.
C3_Shutdown ==
    quitTick > 0 =>
        /\ tick = quitTick
        /\ ~running
        /\ IsPrefix(ops, TickOps)
        /\ (pc \in {"loop", "done"} =>
               /\ ops = TickOps
               /\ presented = tick
               /\ Len(bobHist) = tick
               /\ frame.rod = 1
               /\ Len(frame.hexagon) = 1
               /\ trail[Len(trail)] = bob
               /\ frame.gridBlits = 1
               /\ frame.vortexDots = NUM_VORTEX_PARTICLES)

\* QUIT arrived on a later tick than the first, the time limit played no
\* part, the loop has exited
C3_Witness ==
    /\ quitTick > 1
    /\ limitTick = 0
    /\ pc = "done"
    /\ presented = quitTick

\* C4 (beam gating): once the beam block of a tick has run, the frame holds
\* BEAM_COUNT triangles with apex at the bob on one layer composited once if
\* abs(angular_velocity) * PENDULUM_LENGTH > LIGHT_BEAM_THRESHOLD for this
\* tick's angular velocity, and no beam at all otherwise (equality included);
\* before the beam block runs the cleared frame holds none.
C4_BeamGating ==
    /\ Did("clear") /\ ~Did("beams") =>
          frame.beams = <<>> /\ frame.beamBlits = 0
    /\ Did("beams") =>
          IF Abs(angular_velocity) * PENDULUM_LENGTH
                > LIGHT_BEAM_THRESHOLD * SCALE
          THEN /\ Len(frame.beams) = BEAM_COUNT
               /\ \A k \in 1..BEAM_COUNT : frame.beams[k].apex = bob
               /\ frame.beamBlits = 1
          ELSE /\ frame.beams = <<>>
               /\ frame.beamBlits = 0

\* beams were drawn on this tick
C4_Witness ==
    /\ Did("beams")
    /\ frame.beamBlits = 1
    /\ Len(frame.beams) = BEAM_COUNT

\* C5 (trail gradient endpoints): when the trail is drawn with TRAIL_LENGTH
\* points, the first segment has colour PURPLE and the last segment has
\* colour CYAN.
C5_GradientEndpoints ==
    (Did("trail") /\ Len(trail) = TRAIL_LENGTH) =>
        /\ frame.trailSegs[1].color = PURPLE
        /\ frame.trailSegs[Len(frame.trailSegs)].color = CYAN

\* C6 (integrator step): the physics block sets the acceleration from the
\* angle before the step, then the velocity to the damped sum of the old
\* velocity and the new acceleration, then the angle to the old angle plus
\* the new velocity; the bob is derived from the new angle and is the point
\* every renderer of the tick draws at; the step runs once per tick and no
\* other block changes angle, angular velocity or bob.
C6_IntegratorStep ==
    [][ /\ pc = "physics" =>
              /\ angular_acceleration' =
                    Quot(-(GRAVITY_NUM * Sin(angle)),
                         GRAVITY_DEN * PENDULUM_LENGTH)
              /\ angular_velocity' =
                    Quot((angular_velocity + angular_acceleration')
                            * DAMPING_NUM, DAMPING_DEN)
              /\ angle' = angle + angular_velocity'
              /\ bob' = BobOf(angle')
              /\ Len(bobHist') = tick
        /\ pc # "physics" =>
              /\ UNCHANGED <<angle, angular_velocity, bob, bobHist>>
              /\ Len(bobHist') = (IF Did("physics")' THEN tick' ELSE tick' - 1)
        /\ pc = "hexagon" => frame'.hexagon[1].center = BobOf(angle)
        /\ pc = "trail" => trail'[Len(trail')] = BobOf(angle)
        /\ (pc = "beams" /\ frame'.beamBlits = 1) =>
              frame'.beamCenter = BobOf(angle)
        /\ pc = "grid" => frame'.gridCenter = BobOf(angle)
      ]_vars

\* at least two steps have run from a moving pendulum and the frame of the
\* current tick is complete
C6_Witness ==
    /\ tick >= 2
    /\ pc = "loop"
    /\ angular_velocity # 0
    /\ angular_velocity # angular_acceleration
    /\ angle # initial.angle
    /\ frame.gridCenter = bob

\* number of vortex updates completed
VortexUpdates == IF Did("vortex") THEN tick ELSE IF tick = 0 THEN 0 ELSE tick - 1

\* C7 (vortex radius invariance): after every step there are exactly
\* NUM_VORTEX_PARTICLES particles, each with the radius it was created with
\* and with its initial angle minus VORTEX_ROTATION_SPEED per completed
\* vortex update; the vortex block changes no other program state than the
\* particles' angles (and the canvas it draws on).
C7_VortexInvariance ==
    [][ /\ Len(vortex_particles') = NUM_VORTEX_PARTICLES
        /\ \A i \in 1..NUM_VORTEX_PARTICLES :
              /\ vortex_particles'[i].radius = initial.particles[i].radius
              /\ vortex_particles'[i].angle =
                    initial.particles[i].angle
                       - VortexUpdates' * VORTEX_ROTATION_SPEED
        /\ pc = "vortex" =>
              /\ VortexUpdates' = VortexUpdates + 1
              /\ UNCHANGED <<pendulumVars, running, now, start_ticks,
                             hexagon_angle, trail, presented, tick>>
      ]_vars

\* several vortex updates have run and the particles differ in radius
C7_Witness ==
    /\ Did("vortex")
    /\ tick >= 3
    /\ vortex_particles[1].radius # vortex_particles[2].radius
    /\ vortex_particles[1].angle # initial.particles[1].angle

\* the pendulum state after n integrator steps from (a, v)
RECURSIVE PendulumAfter(_, _, _)
PendulumAfter(n, a, v) ==
    IF n = 0 THEN [angle |-> a, angular_velocity |-> v]
    ELSE LET prev == PendulumAfter(n - 1, a, v)
             acc  == Quot(-(GRAVITY_NUM * Sin(prev.angle)),
                          GRAVITY_DEN * PENDULUM_LENGTH)
             vel  == Quot((prev.angular_velocity + acc) * DAMPING_NUM,
                          DAMPING_DEN)
         IN  [angle |-> prev.angle + vel, angular_velocity |-> vel]

\* C9 (integrator determinism): angle, angular velocity, bob and trail are a
\* function of the initial (angle, angular_velocity) and of the number of
\* integrator steps and trail updates done, whatever the vortex seed, the
\* clock readings, the hexagon rotation and the tick on which QUIT arrives.
C9_Determinism ==
    LET n     == IF Did("physics") THEN tick ELSE IF tick = 0 THEN 0 ELSE tick - 1
        nt    == IF Did("trail") THEN tick ELSE IF tick = 0 THEN 0 ELSE tick - 1
        m     == Min(nt, TRAIL_LENGTH)
        at(k) == PendulumAfter(k, initial.angle, initial.angular_velocity)
    IN  /\ angle = at(n).angle
        /\ angular_velocity = at(n).angular_velocity
        /\ (n > 0 => bob = BobOf(at(n).angle))
        /\ Len(trail) = m
        /\ \A j \in 1..m : trail[j] = BobOf(at(nt - m + j).angle)

\* a run with the second seed, a late clock, a nonzero start reading and a
\* QUIT, several ticks in
C9_Witness ==
    /\ tick >= 3
    /\ Did("trail")
    /\ seed = NumSeeds
    /\ start_ticks # 0
    /\ now - start_ticks > tick * FrameStep
    /\ quitTick > 0

\* the order claimed: the frame is presented before the time check
ClaimedOps ==
    <<"tick", "events", "clear", "physics", "hexagon", "trail", "beams",
      "grid", "vortex", "flip", "timecheck">>

\* C10 as stated (per-tick ordering): the blocks of a tick run in the order
\* wait, events, clear, integrator, hexagon, trail, beams, grid, vortex,
\* present, and only then the elapsed-time check, evaluated once per tick.
C10_OrderAsClaimed ==
    /\ IsPrefix(ops, ClaimedOps)
    /\ checks <= 1

\* C10 amended: the blocks of a tick run in the order wait, events, clear,
\* integrator, hexagon, trail, beams, grid, vortex, elapsed-time check, and
\* only then present; the elapsed-time check is evaluated once per tick,
\* before the frame is presented, and the loop condition is tested after it.
C10_Order ==
    /\ IsPrefix(ops, TickOps)
    /\ checks <= 1
    /\ (Did("flip") => checks = 1 /\ ops = TickOps)
    /\ (Did("timecheck") /\ ~Did("flip") => presented = tick - 1)
    /\ (pc = "loop" /\ tick > 0 => Did("flip") /\ presented = tick)

\* a full tick has run while Running
C10_Witness ==
    /\ pc = "loop"
    /\ running
    /\ tick >= 2
    /\ ops = TickOps

(* ------------------------- draw_warped_grid, dot by dot ---------------- *)
\* warp centres the loop is run for: the bob at the initial angle and at
\* rest, a centre on a lattice coordinate (r = 0 there), and a centre half a
\* spacing left of one (r / GRID_SPACING is a tie at its neighbours)
GridCenters ==
    {BobOf(PI_S \div 4),
     BobOf(0),
     <<27 * GRID_SPACING * SUB, 16 * GRID_SPACING * SUB>>,
     <<27 * GRID_SPACING * SUB - (GRID_SPACING * SUB) \div 2,
       16 * GRID_SPACING * SUB>>}

InitGridLoop ==
    /\ pc = "grid_loop"
    /\ InitLoop(PI_S \div 4, 0, {1}, {0})
    /\ gcenter \in GridCenters
    /\ gx = 0 /\ gy = 0 /\ gdot = <<>> /\ gcount = 0

\* lines 131-143: one iteration of the nested loops
GridDot ==
    /\ pc = "grid_loop"
    /\ gx < WIDTH
    /\ gdot' = WarpPoint(gx, gy, gcenter, GRID_WARP_RADIUS)
    /\ gcount' = gcount + 1
    /\ IF gy + GRID_SPACING < HEIGHT
       THEN gy' = gy + GRID_SPACING /\ gx' = gx
       ELSE gy' = 0 /\ gx' = gx + GRID_SPACING
    /\ UNCHANGED <<pendulumVars, loopVars, histVars, gcenter>>

\* line 144: the loops are over, the layer is composited
GridBlit ==
    /\ pc = "grid_loop"
    /\ gx >= WIDTH
    /\ pc' = "grid_done"
    /\ UNCHANGED <<pendulumVars, running, now, start_ticks, hexagon_angle,
                   trail, vortex_particles, frame, presented, ops, tick,
                   histVars, gridVars>>

NextGrid == GridDot \/ GridBlit

SpecGrid == InitGridLoop /\ [][NextGrid]_vars

\* the part of C8 that does not depend on where a warped dot lands: one dot
\* per lattice coordinate, remapped radius the nearest multiple of
\* GRID_SPACING, remapped point at that radius in the direction of the
\* lattice coordinate, unwarped dots at the raw coordinate
GridDotCommon ==
    LET x   == gdot.at[1]
        y   == gdot.at[2]
        dx  == x * SUB - gcenter[1]
        dy  == y * SUB - gcenter[2]
        q   == dx * dx + dy * dy
        d   == GRID_SPACING * SUB
        ex  == gdot.exact[1] - gcenter[1]
        ey  == gdot.exact[2] - gcenter[2]
        nr  == gdot.new_r
    IN  /\ x % GRID_SPACING = 0 /\ y % GRID_SPACING = 0
        /\ x \in 0..(WIDTH - 1) /\ y \in 0..(HEIGHT - 1)
        /\ gcount = (x \div GRID_SPACING) * RangeCount(HEIGHT)
                       + (y \div GRID_SPACING) + 1
        /\ (pc = "grid_done" =>
               gcount = RangeCount(WIDTH) * RangeCount(HEIGHT))
        /\ gdot.warped =
              (q > 0 /\ q < (GRID_WARP_RADIUS * SUB) * (GRID_WARP_RADIUS * SUB))
        /\ IF gdot.warped
           THEN /\ nr % d = 0
                /\ nr >= 0
                \* |2 * nr - 2 * r| <= d, with 2 * r = sqrt(4 * q)
                /\ (2 * nr + d) * (2 * nr + d) >= 4 * q
                /\ (2 * nr > d => (2 * nr - d) * (2 * nr - d) <= 4 * q)
                \* the remapped point is nr from the centre, within 0.3 pixel
                /\ ex * ex + ey * ey <= (nr + 3) * (nr + 3)
                /\ (nr > 3 => ex * ex + ey * ey >= (nr - 3) * (nr - 3))
                \* and in the direction of (dx, dy)
                /\ ex * dx + ey * dy >= 0
                /\ Abs(ex * dy - ey * dx) <= 3 * (ISqrt(q) + 1)
           ELSE gdot.exact = <<x * SUB, y * SUB>> /\ gdot.pos = <<x, y>>

====
